---- MODULE Spec2Model ----
(***************************************************************************)
(* MemoML: the character scanner, the token-driven parser and parse(text). *)
(*                                                                         *)
(* Strings are sequences of one-character strings.  A JavaScript value is  *)
(* a record [type, str, num, exp]; a number is num * 10^(-exp).  Node      *)
(* objects live in the sequence `nodes`; a node reference is its index.    *)
(***************************************************************************)
EXTENDS Integers, Sequences, FiniteSets, TLC

\* ------------------------------------------------------------------ bounds

\* Most pieces a text given to parse(text) is made of.
MaxPieces == 5
\* Most pieces a text given to Scanner.scan is made of.
MaxScanPieces == 4
\* Most Parser.parse calls a harness makes on a parser that does not trace.
MaxFeed == 7
\* Most Parser.parse calls a harness makes on a tracing parser.
MaxTrace == 3
\* Most pieces a text given to each of two scan calls on one Scanner is made of.
MaxRescanPieces == 2
\* Most pieces a text is made of when scan is followed to its end.
MaxRunPieces == 3

\* ------------------------------------------------------------------ values

Undefined == [type |-> "undefined", str |-> <<>>, num |-> 0, exp |-> 0]
Null == [type |-> "null", str |-> <<>>, num |-> 0, exp |-> 0]
True == [type |-> "boolean", str |-> <<>>, num |-> 1, exp |-> 0]
False == [type |-> "boolean", str |-> <<>>, num |-> 0, exp |-> 0]
NaN == [type |-> "number", str |-> <<"N", "a", "N">>, num |-> 0, exp |-> 0]
Str(s) == [type |-> "string", str |-> s, num |-> 0, exp |-> 0]
Num(n, e) == [type |-> "number", str |-> <<>>, num |-> n, exp |-> e]

kSchemaName == Str(<<"M", "e", "m", "o", "M", "L">>)
kSchemaVersion == Str(<<"0", ".", "1", ".", "0">>)

\* ------------------------------------------------------------------ tokens

TokenKind ==
    {"EOF", "LEFT_BRACE", "RIGHT_BRACE", "SEMICOLON", "IDENTIFIER",
     "STRING", "NUMBER", "TRUE", "FALSE", "NULL"}

\* new Token(kind, lexeme, value): emit never passes a location.
Token(kind, lexeme, value) == [kind |-> kind, lexeme |-> lexeme, value |-> value]

NoToken == Token("NONE", Undefined, Undefined)

\* isLiteral with IDENTIFIER among the literal kinds.
isLiteralOrIdentifier(token) ==
    token.kind \in {"STRING", "NUMBER", "TRUE", "FALSE", "NULL", "IDENTIFIER"}

\* get isLiteral
isLiteral(token) == token.kind \in {"STRING", "NUMBER", "TRUE", "FALSE", "NULL"}

\* ------------------------------------------------------------------ errors

\* An error is its class, its message (for the parser's message, the token kind,
\* lexeme and state it is built from) and the line it carries, 0 for none.
NoError ==
    [type |-> "none", msg |-> "", kind |-> "", lexeme |-> Undefined, state |-> "",
     location |-> 0]

\* new Error(message)
Error(message) ==
    [type |-> "Error", msg |-> message, kind |-> "", lexeme |-> Undefined, state |-> "",
     location |-> 0]

\* new TypeError(message)
TypeError(message) ==
    [type |-> "TypeError", msg |-> message, kind |-> "", lexeme |-> Undefined, state |-> "",
     location |-> 0]

\* new MemoSyntaxError(message, location): the constructor passes the message
\* to Error and stores nothing of the location.
MemoSyntaxError(message, location) ==
    [type |-> "MemoSyntaxError", msg |-> message, kind |-> "", lexeme |-> Undefined,
     state |-> "", location |-> 0]

\* new Error(`Unexpected ${token.kind} token "${token.lexeme}" in state ${state}.`)
UnexpectedToken(token, st) ==
    [type |-> "Error", msg |-> "Unexpected token", kind |-> token.kind,
     lexeme |-> token.lexeme, state |-> st, location |-> 0]

\* ------------------------------------------------------------------ state

VARIABLES
    \* Scanner
    source,         \* _source
    start,          \* _start, 0-based
    current,        \* _current, 0-based
    line,           \* _line
    listener,       \* _listener: "none" (no scanner), "collect" or "parser"
    \* Parser
    nodes,          \* the Node objects created so far
    documentRoot,   \* _documentRoot
    state,          \* _state
    scopeStack,     \* _scopeStack
    nextNode,       \* _nextNode
    trace,          \* _trace
    enableTrace,    \* _enableTrace
    \* callers
    pc,             \* where the running call stands
    args,           \* the arguments of parse(text)
    emitted,        \* the tokens the listener has received
    calls,          \* the number of Parser.parse calls made
    accepted,       \* the tokens Parser.parse returned normally on
    fed,            \* the token of the latest Parser.parse call
    op,             \* the latest operation called
    thrown,         \* the error the latest operation raised, or NoError
    result          \* the node the latest operation returned, or 0

scannerVars == <<source, start, current, line, listener>>
parserVars == <<nodes, documentRoot, state, scopeStack, nextNode, trace, enableTrace>>
vars ==
    <<source, start, current, line, listener, nodes, documentRoot, state, scopeStack,
      nextNode, trace, enableTrace, pc, args, emitted, calls, accepted, fed, op, thrown,
      result>>

\* ------------------------------------------------------------------ Parser

\* { key, value }: a Node object without children.
Node(key, value) ==
    [key |-> key, value |-> value, hasChildren |-> FALSE, children |-> <<>>]

\* currentScope reading the bottom of the stack.
currentScopeBottom(stack) == stack[1]

\* get currentScope
currentScope(stack) == stack[Len(stack)]

\* pushScope(node)
pushScope(stack, node) == Append(stack, node)

\* popScope with shift in place of pop.
popScopeShift(stack) == Tail(stack)

\* popScope()
popScope(stack) == SubSeq(stack, 1, Len(stack) - 1)

\* canPopScope with length > 0.
canPopScopeRoot(stack) == Len(stack) > 0

\* canPopScope()
canPopScope(stack) == Len(stack) > 1

\* addChild with unshift in place of push.
addChildFirst(ns, stack, node) ==
    LET scope == currentScope(stack)
    IN  [ns EXCEPT ![scope] =
            [@ EXCEPT !.hasChildren = TRUE, !.children = <<node>> \o @]]

\* addChild putting the node in the place of a child that has its key, when
\* there is one.
addChildByKey(ns, stack, node) ==
    LET scope == currentScope(stack)
        same == {i \in 1 .. Len(ns[scope].children) :
                    ns[ns[scope].children[i]].key = ns[node].key}
    IN  IF same = {}
        THEN [ns EXCEPT ![scope] =
                [@ EXCEPT !.hasChildren = TRUE, !.children = Append(@, node)]]
        ELSE [ns EXCEPT ![scope] =
                [@ EXCEPT !.children[CHOOSE i \in same : TRUE] = node]]

\* addChild(node): scope.children = scope.children || []; scope.children.push(node)
addChild(ns, stack, node) ==
    LET scope == currentScope(stack)
    IN  [ns EXCEPT ![scope] =
            [@ EXCEPT !.hasChildren = TRUE, !.children = Append(@, node)]]

\* newNextNode() making { key: '', children: [] }.
newNextNodeWithChildren(ns) ==
    Append(ns, [Node(Str(<<>>), Undefined) EXCEPT !.hasChildren = TRUE])

\* newNextNode(): a fresh { key: '' }; returns the nodes with the new object.
newNextNode(ns) == Append(ns, Node(Str(<<>>), Undefined))

\* The parser as the field initialisers and the constructor leave it.
ParserNew(traceOn) ==
    /\ nodes = <<Node(kSchemaName, kSchemaVersion), Node(Str(<<>>), Undefined)>>
    /\ documentRoot = 1
    /\ state = "KEY"
    /\ scopeStack = <<1>>
    /\ nextNode = 2
    /\ trace = <<>>
    /\ enableTrace = traceOn

\* No parser has been constructed.
ParserNone ==
    /\ nodes = <<>>
    /\ documentRoot = 0
    /\ state = "NONE"
    /\ scopeStack = <<>>
    /\ nextNode = 0
    /\ trace = <<>>
    /\ enableTrace = FALSE

\* The throw at the end of Parser.parse with the state set back to KEY.
ParserRejectToKey(token) ==
    /\ thrown' = UnexpectedToken(token, state)
    /\ state' = "KEY"
    /\ UNCHANGED <<nodes, documentRoot, scopeStack, nextNode, enableTrace>>

\* The throw at the end of Parser.parse: nothing but the trace has changed.
ParserReject(token) ==
    /\ thrown' = UnexpectedToken(token, state)
    /\ UNCHANGED <<nodes, documentRoot, state, scopeStack, nextNode, enableTrace>>

\* case ParserState.KEY accepting EOF without the move to state EOF.
ParserKeyEofStays(token) ==
    IF token.kind = "IDENTIFIER"
    THEN /\ state' = "VALUE"
         /\ nodes' = [nodes EXCEPT ![nextNode].key = token.value]
         /\ thrown' = NoError
         /\ UNCHANGED <<documentRoot, scopeStack, nextNode, enableTrace>>
    ELSE IF token.kind = "RIGHT_BRACE" /\ canPopScope(scopeStack)
    THEN LET closingScope == currentScope(scopeStack)
             popped == popScope(scopeStack)
             added == addChild(nodes, popped, closingScope)
         IN  IF popped = <<>>
             THEN /\ scopeStack' = popped
                  /\ thrown' = TypeError("Cannot read properties of undefined")
                  /\ UNCHANGED <<nodes, documentRoot, state, nextNode, enableTrace>>
             ELSE /\ scopeStack' = popped
                  /\ nodes' = newNextNode(added)
                  /\ nextNode' = Len(added) + 1
                  /\ thrown' = NoError
                  /\ UNCHANGED <<documentRoot, state, enableTrace>>
    ELSE IF token.kind = "EOF"
    THEN /\ thrown' = NoError
         /\ UNCHANGED <<nodes, documentRoot, state, scopeStack, nextNode, enableTrace>>
    ELSE ParserReject(token)

\* case ParserState.KEY
ParserKey(token) ==
    IF token.kind = "IDENTIFIER"
    THEN /\ state' = "VALUE"
         /\ nodes' = [nodes EXCEPT ![nextNode].key = token.value]
         /\ thrown' = NoError
         /\ UNCHANGED <<documentRoot, scopeStack, nextNode, enableTrace>>
    ELSE IF token.kind = "RIGHT_BRACE" /\ canPopScope(scopeStack)
    THEN LET closingScope == currentScope(scopeStack)
             popped == popScope(scopeStack)
             added == addChild(nodes, popped, closingScope)
         IN  IF popped = <<>>
             THEN \* addChild reads scope.children of an undefined currentScope
                  /\ scopeStack' = popped
                  /\ thrown' = TypeError("Cannot read properties of undefined")
                  /\ UNCHANGED <<nodes, documentRoot, state, nextNode, enableTrace>>
             ELSE /\ scopeStack' = popped
                  /\ nodes' = newNextNode(added)
                  /\ nextNode' = Len(added) + 1
                  /\ thrown' = NoError
                  /\ UNCHANGED <<documentRoot, state, enableTrace>>
    ELSE IF token.kind = "EOF"
    THEN /\ state' = "EOF"
         /\ thrown' = NoError
         /\ UNCHANGED <<nodes, documentRoot, scopeStack, nextNode, enableTrace>>
    ELSE ParserReject(token)

\* case SCOPE without newNextNode() after addChild: the appended node stays
\* the staged one.
ParserScopeStagedKept(token, ns) ==
    IF token.kind = "SEMICOLON"
    THEN /\ state' = "KEY"
         /\ nodes' = addChild(ns, scopeStack, nextNode)
         /\ thrown' = NoError
         /\ UNCHANGED <<documentRoot, scopeStack, nextNode, enableTrace>>
    ELSE IF token.kind = "LEFT_BRACE"
    THEN /\ state' = "KEY"
         /\ scopeStack' = pushScope(scopeStack, nextNode)
         /\ nodes' = newNextNode(ns)
         /\ nextNode' = Len(ns) + 1
         /\ thrown' = NoError
         /\ UNCHANGED <<documentRoot, enableTrace>>
    ELSE ParserReject(token)

\* case ParserState.SCOPE, on the nodes `ns` the VALUE case may have written.
ParserScope(token, ns) ==
    IF token.kind = "SEMICOLON"
    THEN LET added == addChild(ns, scopeStack, nextNode)
         IN  /\ state' = "KEY"
             /\ nodes' = newNextNode(added)
             /\ nextNode' = Len(added) + 1
             /\ thrown' = NoError
             /\ UNCHANGED <<documentRoot, scopeStack, enableTrace>>
    ELSE IF token.kind = "LEFT_BRACE"
    THEN /\ state' = "KEY"
         /\ scopeStack' = pushScope(scopeStack, nextNode)
         /\ nodes' = newNextNode(ns)
         /\ nextNode' = Len(ns) + 1
         /\ thrown' = NoError
         /\ UNCHANGED <<documentRoot, enableTrace>>
    ELSE ParserReject(token)

\* case VALUE storing token.value || true.
ParserValueFalsy(token) ==
    IF isLiteral(token)
    THEN /\ state' = "SCOPE"
         /\ nodes' = [nodes EXCEPT ![nextNode].value =
                          IF token.value \in {False, Null} THEN True ELSE token.value]
         /\ thrown' = NoError
         /\ UNCHANGED <<documentRoot, scopeStack, nextNode, enableTrace>>
    ELSE IF token.kind \in {"SEMICOLON", "LEFT_BRACE"}
    THEN ParserScope(token, [nodes EXCEPT ![nextNode].value = True])
    ELSE ParserReject(token)

\* case VALUE falling through without the default value.
ParserValueNoDefault(token) ==
    IF isLiteral(token)
    THEN /\ state' = "SCOPE"
         /\ nodes' = [nodes EXCEPT ![nextNode].value = token.value]
         /\ thrown' = NoError
         /\ UNCHANGED <<documentRoot, scopeStack, nextNode, enableTrace>>
    ELSE IF token.kind \in {"SEMICOLON", "LEFT_BRACE"}
    THEN ParserScope(token, nodes)
    ELSE ParserReject(token)

\* case ParserState.VALUE, falling through to SCOPE on ';' and '{'.
ParserValue(token) ==
    IF isLiteral(token)
    THEN /\ state' = "SCOPE"
         /\ nodes' = [nodes EXCEPT ![nextNode].value = token.value]
         /\ thrown' = NoError
         /\ UNCHANGED <<documentRoot, scopeStack, nextNode, enableTrace>>
    ELSE IF token.kind \in {"SEMICOLON", "LEFT_BRACE"}
    THEN ParserScope(token, [nodes EXCEPT ![nextNode].value = True])
    ELSE ParserReject(token)

\* get trace: the trace when tracing is enabled, undefined otherwise.
traceGetter == IF enableTrace THEN trace ELSE Undefined

\* Parser.parse recording the state after the switch in place of the one
\* before it.
ParserParseTraceAfter(token) ==
    /\ CASE state = "KEY" -> ParserKey(token)
         [] state = "VALUE" -> ParserValue(token)
         [] state = "SCOPE" -> ParserScope(token, nodes)
         [] OTHER -> ParserReject(token)
    /\ trace' = IF enableTrace
                THEN Append(trace, [state |-> state', token |-> token])
                ELSE trace

\* Parser.parse with state EOF handled like state KEY.
ParserParseRestart(token) ==
    /\ trace' = IF enableTrace
                THEN Append(trace, [state |-> state, token |-> token])
                ELSE trace
    /\ CASE state \in {"KEY", "EOF"} -> ParserKey(token)
         [] state = "VALUE" -> ParserValue(token)
         [] state = "SCOPE" -> ParserScope(token, nodes)
         [] OTHER -> ParserReject(token)

\* Parser.parse(token)
ParserParse(token) ==
    /\ trace' = IF enableTrace
                THEN Append(trace, [state |-> state, token |-> token])
                ELSE trace
    /\ CASE state = "KEY" -> ParserKey(token)
         [] state = "VALUE" -> ParserValue(token)
         [] state = "SCOPE" -> ParserScope(token, nodes)
         [] OTHER -> ParserReject(token)

\* get documentRoot without the state check.
documentRootUnchecked(st) == NoError

\* get documentRoot: the error it raises, or NoError.
documentRootError(st) ==
    IF st # "EOF" THEN Error("Incomplete document.") ELSE NoError

\* ----------------------------------------------------------------- Scanner

Digits == {"0", "1", "2", "3", "4", "5", "6", "7", "8", "9"}
LowerCase ==
    {"a", "b", "c", "d", "e", "f", "g", "h", "i", "j", "k", "l", "m",
     "n", "o", "p", "q", "r", "s", "t", "u", "v", "w", "x", "y", "z"}
UpperCase ==
    {"A", "B", "C", "D", "E", "F", "G", "H", "I", "J", "K", "L", "M",
     "N", "O", "P", "Q", "R", "S", "T", "U", "V", "W", "X", "Y", "Z"}

\* The character '\0' that peek and peekNext return at the end of the source.
NUL == "NUL"

isDot(c) == c = "."

isDigit(c) == c \in Digits

\* isAlpha with '-' among the letters.
isAlphaOrDash(c) == c \in LowerCase \cup UpperCase \cup {"_", "-"}

\* isAlpha(c)
isAlpha(c) == c \in LowerCase \/ c \in UpperCase \/ c = "_"

isAlphaNumeric(c) == isAlpha(c) \/ isDigit(c)

\* kReservedKeywords.get(text) || { kind: IDENTIFIER, value: text }
kReservedKeywords(text) ==
    IF text = <<"f", "a", "l", "s", "e">> THEN [kind |-> "FALSE", value |-> False]
    ELSE IF text = <<"n", "u", "l", "l">> THEN [kind |-> "NULL", value |-> Null]
    ELSE IF text = <<"t", "r", "u", "e">> THEN [kind |-> "TRUE", value |-> True]
    ELSE [kind |-> "IDENTIFIER", value |-> Str(text)]

\* isAtEnd()
isAtEnd(src, cur) == cur >= Len(src)

\* source.charAt(i): the empty string outside the source.
charAt(src, i) == IF i >= 0 /\ i < Len(src) THEN src[i + 1] ELSE ""

\* peek()
peek(src, cur) == IF isAtEnd(src, cur) THEN NUL ELSE charAt(src, cur)

\* peekNext()
peekNext(src, cur) == IF cur + 1 >= Len(src) THEN NUL ELSE charAt(src, cur + 1)

\* source.slice(from, to) and source.substring(from, to), 0 <= from <= to <= length
slice(src, from, to) == SubSeq(src, from + 1, to)

DigitValue(c) ==
    CASE c = "0" -> 0 [] c = "1" -> 1 [] c = "2" -> 2 [] c = "3" -> 3 [] c = "4" -> 4
      [] c = "5" -> 5 [] c = "6" -> 6 [] c = "7" -> 7 [] c = "8" -> 8 [] c = "9" -> 9

\* The end of the run of digits of text that starts at 1-based position i.
RECURSIVE DigitRunEnd(_, _)
DigitRunEnd(text, i) ==
    IF i <= Len(text) /\ isDigit(text[i]) THEN DigitRunEnd(text, i + 1) ELSE i

\* The number the digits text[from .. to-1] write after the number acc.
RECURSIVE DigitsValue(_, _, _, _)
DigitsValue(text, from, to, acc) ==
    IF from >= to THEN acc
    ELSE DigitsValue(text, from + 1, to, acc * 10 + DigitValue(text[from]))

\* A number num * 10^(-exp) without trailing zeros in its fraction.
RECURSIVE Normalize(_, _)
Normalize(n, e) == IF e > 0 /\ n % 10 = 0 THEN Normalize(n \div 10, e - 1) ELSE Num(n, e)

\* parseFloat(text) for a text without sign, exponent or leading blanks: the
\* value of the longest prefix digits ['.' digits] or '.' digits, NaN when
\* that prefix has no digit.  (Exact while the digits fit a double.)
parseFloat(text) ==
    LET intEnd == DigitRunEnd(text, 1)
        hasDot == intEnd <= Len(text) /\ text[intEnd] = "."
        fracEnd == IF hasDot THEN DigitRunEnd(text, intEnd + 1) ELSE intEnd
        nFrac == IF hasDot THEN fracEnd - (intEnd + 1) ELSE 0
        int == DigitsValue(text, 1, intEnd, 0)
    IN  IF intEnd = 1 /\ nFrac = 0 THEN NaN
        ELSE IF nFrac = 0 THEN Num(int, 0)
        ELSE Normalize(DigitsValue(text, intEnd + 1, fracEnd, int), nFrac)

\* The result of scanToken with the cursor left one short when the call
\* neither emits nor raises.
ScannedShort(cur, ln, token, err) ==
    [current |-> IF token = NoToken /\ err = NoError THEN cur - 1 ELSE cur,
     line |-> ln, token |-> token, thrown |-> err]

\* What one scanToken call leaves: the cursor, the line, the token it emitted
\* (NoToken when none) and the error it raised (NoError when none).
Scanned(cur, ln, token, err) ==
    [current |-> cur, line |-> ln, token |-> token, thrown |-> err]

\* The comment loop stopping at a space as well.
RECURSIVE commentToBlank(_, _)
commentToBlank(src, cur) ==
    IF peek(src, cur) \notin {"\n", " "} /\ ~isAtEnd(src, cur)
    THEN commentToBlank(src, cur + 1)
    ELSE cur

\* case '#': while (peek() !== '\n' && !isAtEnd()) advance()
RECURSIVE comment(_, _)
comment(src, cur) ==
    IF peek(src, cur) # "\n" /\ ~isAtEnd(src, cur) THEN comment(src, cur + 1) ELSE cur

\* The loop of string() without the line count.
RECURSIVE stringLoopNoLines(_, _, _)
stringLoopNoLines(src, cur, ln) ==
    IF peek(src, cur) # "\"" /\ ~isAtEnd(src, cur)
    THEN stringLoopNoLines(src, cur + 1, ln)
    ELSE [current |-> cur, line |-> ln]

\* The loop of string(): the cursor and the line where it stops.
RECURSIVE stringLoop(_, _, _)
stringLoop(src, cur, ln) ==
    IF peek(src, cur) # "\"" /\ ~isAtEnd(src, cur)
    THEN stringLoop(src, cur + 1, IF peek(src, cur) = "\n" THEN ln + 1 ELSE ln)
    ELSE [current |-> cur, line |-> ln]

\* string() with the quotes left in the value.
stringQuoted(src, st, cur, ln) ==
    LET at == stringLoop(src, cur, ln)
    IN  IF isAtEnd(src, at.current)
        THEN Scanned(at.current, at.line, NoToken,
                     MemoSyntaxError("Unterminated string.", at.line))
        ELSE LET closed == at.current + 1
                 value == slice(src, st, closed)
             IN  Scanned(closed, at.line, Token("STRING", Str(<<>>), Str(value)), NoError)

\* string()
string(src, st, cur, ln) ==
    LET at == stringLoop(src, cur, ln)
    IN  IF isAtEnd(src, at.current)
        THEN Scanned(at.current, at.line, NoToken,
                     MemoSyntaxError("Unterminated string.", at.line))
        ELSE LET closed == at.current + 1
                 value == slice(src, st + 1, closed - 1)
             IN  Scanned(closed, at.line, Token("STRING", Str(<<>>), Str(value)), NoError)

\* while (isDigit(peek())) advance()
RECURSIVE digits(_, _)
digits(src, cur) == IF isDigit(peek(src, cur)) THEN digits(src, cur + 1) ELSE cur

\* number()
number(src, st, cur, ln) ==
    LET intEnd == digits(src, cur)
        end == IF peek(src, intEnd) = "." /\ isDigit(peekNext(src, intEnd))
               THEN digits(src, intEnd + 1)
               ELSE intEnd
        text == slice(src, st, end)
    IN  Scanned(end, ln, Token("NUMBER", Str(text), parseFloat(text)), NoError)

\* The identifier loop with isAlpha in place of isAlphaNumeric.
RECURSIVE alphasOnly(_, _)
alphasOnly(src, cur) ==
    IF isAlpha(peek(src, cur)) THEN alphasOnly(src, cur + 1) ELSE cur

\* while (isAlphaNumeric(peek())) advance()
RECURSIVE alphaNumerics(_, _)
alphaNumerics(src, cur) ==
    IF isAlphaNumeric(peek(src, cur)) THEN alphaNumerics(src, cur + 1) ELSE cur

\* identifier()
identifier(src, st, cur, ln) ==
    LET end == alphaNumerics(src, cur)
        text == slice(src, st, end)
        keyword == kReservedKeywords(text)
    IN  Scanned(end, ln, Token(keyword.kind, Str(text), keyword.value), NoError)

\* scanToken(), called with _start = _current = st and the source not at its end.
scanToken(src, st, ln) ==
    LET c == charAt(src, st)
        cur == st + 1
    IN  CASE c = "{" -> Scanned(cur, ln, Token("LEFT_BRACE", Str(<<c>>), Str(<<c>>)), NoError)
          [] c = "}" -> Scanned(cur, ln, Token("RIGHT_BRACE", Str(<<c>>), Str(<<c>>)), NoError)
          [] c = ";" -> Scanned(cur, ln, Token("SEMICOLON", Str(<<c>>), Str(<<c>>)), NoError)
          [] c = "#" -> Scanned(comment(src, cur), ln, NoToken, NoError)
          [] c = " " -> Scanned(cur, ln, NoToken, NoError)
          [] c = "\r" -> Scanned(cur, ln, NoToken, NoError)
          [] c = "\t" -> Scanned(cur, ln, NoToken, NoError)
          [] c = "\n" -> Scanned(cur, ln + 1, NoToken, NoError)
          [] c = "\"" -> string(src, st, cur, ln)
          [] OTHER ->
                IF isDigit(c) \/ isDot(c) THEN number(src, st, cur, ln)
                ELSE IF isAlpha(c) THEN identifier(src, st, cur, ln)
                ELSE Scanned(cur, ln, NoToken, MemoSyntaxError("Unexpected character.", 0))

\* scan(source) of a fresh Scanner whose listener only collects: the tokens
\* emitted and the error raised, from cursor cur and line ln on.
RECURSIVE scanFrom(_, _, _, _)
scanFrom(src, cur, ln, tokens) ==
    IF isAtEnd(src, cur)
    THEN [tokens |-> Append(tokens, Token("EOF", Undefined, Undefined)), thrown |-> NoError]
    ELSE LET r == scanToken(src, cur, ln)
         IN  IF r.thrown # NoError THEN [tokens |-> tokens, thrown |-> r.thrown]
             ELSE scanFrom(src, r.current, r.line,
                           IF r.token = NoToken THEN tokens ELSE Append(tokens, r.token))

scanTokens(src) == scanFrom(src, 0, 1, <<>>)

\* ------------------------------------------------- a harness feeding tokens

Ch(c) == <<c>>

HarnessTokens ==
    {Token("IDENTIFIER", Str(Ch("a")), Str(Ch("a"))),
     Token("IDENTIFIER", Str(Ch("b")), Str(Ch("b"))),
     Token("STRING", Str(Ch("s")), Str(Ch("s"))),
     Token("STRING", Str(<<"-", "2", ".", "7">>), Num(-27, 1)),
     Token("NUMBER", Str(<<"-", "1">>), Num(-1, 0)),
     Token("TRUE", Str(<<"t", "r", "u", "e">>), True),
     Token("FALSE", Str(<<"f", "a", "l", "s", "e">>), False),
     Token("NULL", Str(<<"n", "u", "l", "l">>), Null),
     Token("SEMICOLON", Str(Ch(";")), Str(Ch(";"))),
     Token("LEFT_BRACE", Str(Ch("{")), Str(Ch("{"))),
     Token("RIGHT_BRACE", Str(Ch("}")), Str(Ch("}"))),
     Token("EOF", Undefined, Undefined)}

ScannerNone ==
    /\ source = <<>>
    /\ start = 0
    /\ current = 0
    /\ line = 1
    /\ listener = "none"

\* new Parser(trace)
InitParser ==
    /\ ScannerNone
    /\ \E traceOn \in BOOLEAN : ParserNew(traceOn)
    /\ pc = "harness"
    /\ args = <<>>
    /\ emitted = <<>>
    /\ calls = 0
    /\ accepted = <<>>
    /\ fed = NoToken
    /\ op = "new"
    /\ thrown = NoError
    /\ result = 0

\* The listener of parse(text) and the harness: parser.parse(token), with the
\* call counted and the token noted when the call returns normally.
CallParserParse(token) ==
    /\ ParserParse(token)
    /\ calls' = calls + 1
    /\ accepted' = IF thrown' = NoError THEN Append(accepted, token) ELSE accepted
    /\ fed' = token

\* The harness calls parser.parse(token).
Feed(token) ==
    /\ pc = "harness"
    /\ calls < (IF enableTrace THEN MaxTrace ELSE MaxFeed)
    /\ CallParserParse(token)
    /\ op' = "parse"
    /\ result' = 0
    /\ UNCHANGED <<scannerVars, pc, args, emitted>>

\* parser.documentRoot
ReadDocumentRoot ==
    /\ pc = "harness"
    /\ op' = "documentRoot"
    /\ thrown' = documentRootError(state)
    /\ result' = IF thrown' = NoError THEN documentRoot ELSE 0
    /\ UNCHANGED <<scannerVars, parserVars, pc, args, emitted, calls, accepted, fed>>

NextParser ==
    \/ \E token \in HarnessTokens : Feed(token)
    \/ ReadDocumentRoot

SpecParser == InitParser /\ [][NextParser]_vars

\* ------------------------------------------------------ scanning, step by step

\* The texts made of at most n of the given pieces.
RECURSIVE TextsOf(_, _)
TextsOf(pieces, n) ==
    IF n = 0 THEN {<<>>}
    ELSE LET shorter == TextsOf(pieces, n - 1)
         IN  shorter \cup {t \o p : t \in shorter, p \in pieces}

\* emit calling the listener and recording the token a second time.
emitTwice(token) ==
    /\ emitted' = Append(Append(emitted, token), token)
    /\ IF listener = "parser"
       THEN CallParserParse(token)
       ELSE /\ thrown' = NoError
            /\ UNCHANGED <<parserVars, calls, accepted, fed>>

\* emit(kind, lexeme, value): the listener is called with the new token.  The
\* listener of parse(text) is (token) => parser.parse(token); the other one
\* only collects.
emit(token) ==
    /\ emitted' = Append(emitted, token)
    /\ IF listener = "parser"
       THEN CallParserParse(token)
       ELSE /\ thrown' = NoError
            /\ UNCHANGED <<parserVars, calls, accepted, fed>>

\* One turn of the loop of scan() that goes on to the next turn after an error.
ScanTokenResuming ==
    /\ pc = "scan"
    /\ ~isAtEnd(source, current)
    /\ LET r == scanToken(source, current, line)
       IN  /\ start' = current
           /\ current' = r.current
           /\ line' = r.line
           /\ IF r.thrown # NoError
              THEN /\ thrown' = r.thrown
                   /\ UNCHANGED <<parserVars, calls, accepted, fed, emitted>>
              ELSE IF r.token = NoToken
              THEN /\ thrown' = NoError
                   /\ UNCHANGED <<parserVars, calls, accepted, fed, emitted>>
              ELSE emit(r.token)
    /\ pc' = "scan"
    /\ UNCHANGED <<source, listener, args, op, result>>

\* One turn of the loop of scan(): _start = _current; scanToken().  An error of
\* scanToken or of the listener leaves scan (and parse) at once.
ScanToken ==
    /\ pc = "scan"
    /\ ~isAtEnd(source, current)
    /\ LET r == scanToken(source, current, line)
       IN  /\ start' = current
           /\ current' = r.current
           /\ line' = r.line
           /\ IF r.thrown # NoError
              THEN /\ thrown' = r.thrown
                   /\ UNCHANGED <<parserVars, calls, accepted, fed, emitted>>
              ELSE IF r.token = NoToken
              THEN /\ thrown' = NoError
                   /\ UNCHANGED <<parserVars, calls, accepted, fed, emitted>>
              ELSE emit(r.token)
    /\ pc' = IF thrown' = NoError THEN "scan" ELSE "threw"
    /\ UNCHANGED <<source, listener, args, op, result>>

\* The end of scan() without emit(EOF).
ScanEndSilent ==
    /\ pc = "scan"
    /\ isAtEnd(source, current)
    /\ thrown' = NoError
    /\ pc' = IF op = "parse" THEN "scanned" ELSE "returned"
    /\ UNCHANGED <<scannerVars, parserVars, args, op, result, emitted, calls, accepted, fed>>

\* The end of scan(): emit(EOF), and scan returns: to its caller, or into
\* parse(text), which goes on to read parser.documentRoot.
ScanEnd ==
    /\ pc = "scan"
    /\ isAtEnd(source, current)
    /\ emit(Token("EOF", Undefined, Undefined))
    /\ pc' = IF thrown' # NoError THEN "threw"
             ELSE IF op = "parse" THEN "scanned"
             ELSE "returned"
    /\ UNCHANGED <<scannerVars, args, op, result>>

\* ------------------------------------------------------- Scanner.scan alone

ScanPieces ==
    {<<"{">>, <<"}">>, <<";">>, <<"#">>, <<" ">>, <<"\n">>, <<"\"">>, <<"1">>,
     <<".">>, <<"a">>, <<"-">>}

\* Words: the reserved words, a reserved word in capitals, a letter, '_', a
\* digit, a space and a colon.
WordPieces ==
    {<<"t", "r", "u", "e">>, <<"f", "a", "l", "s", "e">>, <<"n", "u", "l", "l">>,
     <<"N", "U", "L", "L">>, <<"x">>, <<"_">>, <<"1">>, <<" ">>, <<":">>}

\* The texts scan is called with: at most n pieces.
ScanTexts(n) == TextsOf(ScanPieces, n) \cup TextsOf(WordPieces, n)

\* new Scanner((token) => tokens.push(token))
InitScanner ==
    /\ source = <<>>
    /\ start = 0
    /\ current = 0
    /\ line = 1
    /\ listener = "collect"
    /\ ParserNone
    /\ pc = "idle"
    /\ args = <<>>
    /\ emitted = <<>>
    /\ calls = 0
    /\ accepted = <<>>
    /\ fed = NoToken
    /\ op = "new"
    /\ thrown = NoError
    /\ result = 0

\* scanner.scan(src), up to its loop.
Scan ==
    /\ pc = "idle"
    /\ op = "new"
    /\ \E src \in ScanTexts(MaxScanPieces) : source' = src
    /\ op' = "scan"
    /\ pc' = "scan"
    /\ UNCHANGED <<start, current, line, listener, parserVars, args, emitted, calls,
                   accepted, fed, thrown, result>>

NextScanner ==
    \/ Scan
    \/ ScanToken
    \/ ScanEnd

SpecScanner == InitScanner /\ [][NextScanner]_vars

\* scanner.scan(source) with a source of at most MaxRunPieces pieces.
ScanRun ==
    /\ pc = "idle"
    /\ op = "new"
    /\ \E src \in ScanTexts(MaxRunPieces) : source' = src
    /\ op' = "scan"
    /\ pc' = "scan"
    /\ UNCHANGED <<start, current, line, listener, parserVars, args, emitted, calls,
                   accepted, fed, thrown, result>>

NextScannerRuns ==
    \/ ScanRun
    \/ ScanToken
    \/ ScanEnd

\* scan runs on: the loop takes its next turn, and the call after the loop is
\* made, whenever it can be.
SpecScannerRuns ==
    InitScanner /\ [][NextScannerRuns]_vars /\ WF_vars(ScanToken) /\ WF_vars(ScanEnd)

\* ------------------------------------------ two scan calls on one Scanner

RescanPieces == {<<"a">>, <<"{">>, <<";">>, <<"\n">>, <<"\"">>}

RescanTexts(n) == TextsOf(RescanPieces, n)

\* scanner.scan(source), the first call on the new Scanner.
FirstScan ==
    /\ pc = "idle"
    /\ op = "new"
    /\ \E src \in RescanTexts(MaxRescanPieces) : source' = src
    /\ op' = "scan"
    /\ pc' = "scan"
    /\ UNCHANGED <<start, current, line, listener, parserVars, args, emitted, calls,
                   accepted, fed, thrown, result>>

\* scanner.scan(source) again, once the first call has returned or raised;
\* the caller collects the tokens of this call in a new list.  scan assigns
\* _source and nothing else before its loop.
SecondScan ==
    /\ pc \in {"returned", "threw"}
    /\ op = "scan"
    /\ \E src \in RescanTexts(MaxRescanPieces) : source' = src
    /\ op' = "rescan"
    /\ pc' = "scan"
    /\ emitted' = <<>>
    /\ thrown' = NoError
    /\ UNCHANGED <<start, current, line, listener, parserVars, args, calls, accepted,
                   fed, result>>

NextRescan ==
    \/ FirstScan
    \/ SecondScan
    \/ ScanToken
    \/ ScanEnd

SpecRescan == InitScanner /\ [][NextRescan]_vars

\* ------------------------------------------------------------- parse(text)

ParsePieces ==
    {<<"a">>, <<" ", "1">>, <<";">>, <<"{">>, <<"}">>, <<"#">>,
     <<"\t", "\r", "\n", " ">>, <<" ", "-", "1">>}

\* The argument lists parse is called with: one text, or something else.
ParseArgs(n) ==
    {<<Str(t)>> : t \in TextsOf(ParsePieces, n)}
        \cup {<<>>, <<Num(3, 0)>>, <<Null>>, <<Str(<<"a", ";">>), Str(<<>>)>>}

\* Nothing has been called.
Init ==
    /\ ScannerNone
    /\ ParserNone
    /\ pc = "idle"
    /\ args = <<>>
    /\ emitted = <<>>
    /\ calls = 0
    /\ accepted = <<>>
    /\ fed = NoToken
    /\ op = "none"
    /\ thrown = NoError
    /\ result = 0

\* The argument checks of parse without the typeof check.
parseArgumentCountError(a) ==
    IF Len(a) # 1 THEN TypeError("Invalid number of arguments.") ELSE NoError

\* The argument checks of parse: the error they raise, or NoError.
parseArgumentError(a) ==
    IF Len(a) # 1 THEN TypeError("Invalid number of arguments.")
    ELSE IF a[1].type # "string" THEN TypeError("Invalid argument type.")
    ELSE NoError

\* parse(text), up to the loop of scanner.scan(text): the argument checks, then
\* new Parser(), new Scanner(listener) and the first statement of scan.
Parse ==
    /\ pc = "idle"
    /\ op = "none"
    /\ \E a \in ParseArgs(MaxPieces) : args' = a
    /\ op' = "parse"
    /\ thrown' = parseArgumentError(args')
    /\ IF thrown' # NoError
       THEN /\ pc' = "threw"
            /\ UNCHANGED <<scannerVars, parserVars>>
       ELSE /\ pc' = "scan"
            /\ nodes' = <<Node(kSchemaName, kSchemaVersion), Node(Str(<<>>), Undefined)>>
            /\ documentRoot' = 1
            /\ state' = "KEY"
            /\ scopeStack' = <<1>>
            /\ nextNode' = 2
            /\ trace' = <<>>
            /\ enableTrace' = FALSE
            /\ source' = args'[1].str
            /\ start' = 0
            /\ current' = 0
            /\ line' = 1
            /\ listener' = "parser"
    /\ UNCHANGED <<emitted, calls, accepted, fed, result>>

\* The last statement of parse(text): return parser.documentRoot.
ParseReturn ==
    /\ pc = "scanned"
    /\ thrown' = documentRootError(state)
    /\ result' = IF thrown' = NoError THEN documentRoot ELSE 0
    /\ pc' = IF thrown' = NoError THEN "returned" ELSE "threw"
    /\ UNCHANGED <<scannerVars, parserVars, args, emitted, calls, accepted, fed, op>>

Next ==
    \/ Parse
    \/ ScanToken
    \/ ScanEnd
    \/ ParseReturn

Spec == Init /\ [][Next]_vars

\* =================================================================== claims

\* The tree below a node: the node with its children as trees.
RECURSIVE Tree(_, _)
Tree(ns, id) ==
    [key |-> ns[id].key,
     value |-> ns[id].value,
     hasChildren |-> ns[id].hasChildren,
     children |-> [i \in 1 .. Len(ns[id].children) |-> Tree(ns, ns[id].children[i])]]

\* The grammar, read off a token sequence by recursive descent:
\*   document := entry* EOF
\*   entry    := IDENTIFIER value? (';' | '{' entry* '}')
\*   value    := STRING | NUMBER | TRUE | FALSE | NULL
GrammarValueKinds == {"STRING", "NUMBER", "TRUE", "FALSE", "NULL"}

GrammarNode(key, value, children) ==
    [key |-> key, value |-> value, hasChildren |-> children # <<>>, children |-> children]

GrammarFail == [ok |-> FALSE, next |-> 0, entries |-> <<>>]

RECURSIVE GrammarEntries(_, _)
GrammarEntries(toks, i) ==
    IF i <= Len(toks) /\ toks[i].kind = "IDENTIFIER"
    THEN LET hasValue == i + 1 <= Len(toks) /\ toks[i + 1].kind \in GrammarValueKinds
             value == IF hasValue THEN toks[i + 1].value ELSE True
             j == IF hasValue THEN i + 2 ELSE i + 1
             inner == GrammarEntries(toks, j + 1)
             closed == inner.ok /\ inner.next <= Len(toks)
                         /\ toks[inner.next].kind = "RIGHT_BRACE"
             after == IF toks[j].kind = "SEMICOLON" THEN j + 1 ELSE inner.next + 1
             children == IF toks[j].kind = "SEMICOLON" THEN <<>> ELSE inner.entries
             rest == GrammarEntries(toks, after)
         IN  IF j > Len(toks) THEN GrammarFail
             ELSE IF toks[j].kind = "SEMICOLON" \/ (toks[j].kind = "LEFT_BRACE" /\ closed)
             THEN IF rest.ok
                  THEN [ok |-> TRUE, next |-> rest.next,
                        entries |-> <<GrammarNode(toks[i].value, value, children)>>
                                        \o rest.entries]
                  ELSE GrammarFail
             ELSE GrammarFail
    ELSE [ok |-> TRUE, next |-> i, entries |-> <<>>]

\* The token sequence is a document.
GrammarMatches(toks) ==
    LET d == GrammarEntries(toks, 1)
    IN  d.ok /\ d.next = Len(toks) /\ toks[Len(toks)].kind = "EOF"

\* parse(text) was called with one string and has ended.
ParseEnded ==
    /\ op = "parse"
    /\ pc \in {"returned", "threw"}
    /\ parseArgumentError(args) = NoError

\* C1: when the token stream of the text is a document of the grammar,
\* parse(text) returns the root, and the tree below the root has exactly the
\* document's top-level entries as children, in source order, each with its
\* key, its literal value (true when none is written) and, recursively, the
\* entries between its braces as its children.
C1_ParseBuildsDocument ==
    ParseEnded =>
        LET scan == scanTokens(source)
        IN  (scan.thrown = NoError /\ GrammarMatches(scan.tokens)) =>
                /\ pc = "returned"
                /\ thrown = NoError
                /\ emitted = scan.tokens
                /\ result = documentRoot
                /\ LET entries == GrammarEntries(scan.tokens, 1).entries
                       root == Tree(nodes, result)
                   IN  /\ root.children = entries
                       /\ root.hasChildren = (entries # <<>>)

\* C1 witness: parse returned a root with an entry that has an entry of its own.
C1_Witness ==
    /\ ParseEnded
    /\ pc = "returned"
    /\ GrammarMatches(emitted)
    /\ \E i \in 1 .. Len(nodes[result].children) :
           nodes[nodes[result].children[i]].children # <<>>

\* C2: parse(text) raises an error and returns no node for every text that
\* has a lexical error or whose token stream is not a document of the grammar.
C2_MalformedRejected ==
    ParseEnded =>
        LET scan == scanTokens(source)
        IN  (scan.thrown # NoError \/ ~GrammarMatches(scan.tokens)) =>
                /\ pc = "threw"
                /\ thrown # NoError
                /\ result = 0

\* A step that is one Parser.parse call; fed' is its token.
ParseCalled == calls' = calls + 1

\* The token was accepted: the call returned normally.
Accepted(kinds) == ParseCalled /\ thrown' = NoError /\ fed'.kind \in kinds

IncompleteDocument == Error("Incomplete document.")

\* C3: reading documentRoot raises 'Incomplete document.' in every parser
\* state but EOF, whatever tokens were accepted or rejected before; it returns
\* the root only in state EOF, and the parser is in state EOF exactly when an
\* EOF token has been accepted.
C3_DocumentRootOnlyAtEof ==
    /\ (state = "EOF") = (\E i \in 1 .. Len(accepted) : accepted[i].kind = "EOF")
    /\ op = "documentRoot" =>
          IF state = "EOF"
          THEN thrown = NoError /\ result = documentRoot
          ELSE thrown = IncompleteDocument /\ result = 0

\* C3 witness: documentRoot was read, and failed, with a key and a value
\* staged and after a rejected token.
C3_Witness ==
    /\ op = "documentRoot"
    /\ thrown = IncompleteDocument
    /\ state = "SCOPE"
    /\ Len(accepted) < calls

\* C4: in state VALUE a SEMICOLON or LEFT_BRACE is accepted in that one call
\* and ends in state KEY; the staged node keeps its key and gets the value
\* true; SEMICOLON appends it to the current scope, LEFT_BRACE pushes it as
\* the new current scope.
C4_ValueDefaultsToTrue ==
    [][(ParseCalled /\ state = "VALUE" /\ fed'.kind \in {"SEMICOLON", "LEFT_BRACE"}) =>
          LET top == scopeStack[Len(scopeStack)]
          IN  /\ thrown' = NoError
              /\ accepted' = Append(accepted, fed')
              /\ state' = "KEY"
              /\ nodes'[nextNode] = Node(nodes[nextNode].key, True)
              /\ nextNode' # nextNode
              /\ fed'.kind = "SEMICOLON" =>
                    /\ scopeStack' = scopeStack
                    /\ nodes'[top].hasChildren
                    /\ nodes'[top].children = Append(nodes[top].children, nextNode)
              /\ fed'.kind = "LEFT_BRACE" =>
                    /\ scopeStack' = Append(scopeStack, nextNode)
                    /\ nodes'[top] = nodes[top]]_vars

\* C4 witness: a key directly followed by ';' has become the last child of
\* the current scope, with the value true.
C4_Witness ==
    LET n == Len(accepted)
        top == nodes[scopeStack[Len(scopeStack)]]
    IN  /\ op = "parse"
        /\ thrown = NoError
        /\ state = "KEY"
        /\ n >= 2
        /\ accepted[n - 1].kind = "IDENTIFIER"
        /\ accepted[n].kind = "SEMICOLON"
        /\ top.children # <<>>
        /\ nodes[top.children[Len(top.children)]] = Node(accepted[n - 1].value, True)

\* C5: a SEMICOLON fed after IDENTIFIER(k) and a literal token with value v
\* appends exactly one child to the current scope, the node {key: k, value: v}
\* with v as the token carried it, and changes no other node.
C5_LiteralValueKept ==
    [][(ParseCalled /\ state = "SCOPE" /\ fed'.kind = "SEMICOLON") =>
          LET n == Len(accepted)
              top == scopeStack[Len(scopeStack)]
          IN  /\ n >= 2
              /\ accepted[n - 1].kind = "IDENTIFIER"
              /\ accepted[n].kind \in GrammarValueKinds
              /\ thrown' = NoError
              /\ state' = "KEY"
              /\ scopeStack' = scopeStack
              /\ nodes'[nextNode] = Node(accepted[n - 1].value, accepted[n].value)
              /\ nodes'[top].children = Append(nodes[top].children, nextNode)
              /\ \A i \in 1 .. Len(nodes) : i # top => nodes'[i] = nodes[i]]_vars

\* C5 witness: a key, the literal false and ';' were accepted, and the last
\* child of the current scope carries false.
C5_Witness ==
    LET n == Len(accepted)
        top == nodes[scopeStack[Len(scopeStack)]]
    IN  /\ op = "parse"
        /\ thrown = NoError
        /\ n >= 3
        /\ accepted[n - 2].kind = "IDENTIFIER"
        /\ accepted[n - 1].value = False
        /\ accepted[n].kind = "SEMICOLON"
        /\ top.children # <<>>
        /\ nodes[top.children[Len(top.children)]] = Node(accepted[n - 2].value, False)

\* The number of places node id is a child at.
ChildPlaces(ns, id) ==
    Cardinality({<<p, i>> \in (1 .. Len(ns)) \X (1 .. Len(ns)) :
                    i <= Len(ns[p].children) /\ ns[p].children[i] = id})

\* C6: LEFT_BRACE pushes the staged node; an open scope gets a child exactly
\* when it is the top of the stack and an entry is completed by ';' or it is
\* just below the top and the top is closed by '}'; an accepted RIGHT_BRACE
\* pops the top and appends it as the last child of the scope below it, in
\* state KEY; a closed node is a child at exactly one place and changes no
\* more, an open one is a child nowhere.
C6_ScopeCollectsAndCloses ==
    /\ [](\A id \in 1 .. Len(nodes) :
            /\ ChildPlaces(nodes, id) <= 1
            /\ (\E i \in 1 .. Len(scopeStack) : scopeStack[i] = id) =>
                   ChildPlaces(nodes, id) = 0)
    /\ [][ParseCalled =>
            LET depth == Len(scopeStack)
                top == scopeStack[depth]
            IN  /\ Accepted({"LEFT_BRACE"}) =>
                      /\ scopeStack' = Append(scopeStack, nextNode)
                      /\ nodes'[nextNode].children = <<>>
                /\ Accepted({"RIGHT_BRACE"}) =>
                      /\ depth > 1
                      /\ state = "KEY" /\ state' = "KEY"
                      /\ scopeStack' = SubSeq(scopeStack, 1, depth - 1)
                      /\ nodes'[top] = nodes[top]
                      /\ ChildPlaces(nodes', top) = 1
                /\ \A i \in 1 .. depth :
                      nodes'[scopeStack[i]].children =
                          IF i = depth /\ Accepted({"SEMICOLON"})
                          THEN Append(nodes[top].children, nextNode)
                          ELSE IF i = depth - 1 /\ Accepted({"RIGHT_BRACE"})
                          THEN Append(nodes[scopeStack[i]].children, top)
                          ELSE nodes[scopeStack[i]].children
                /\ \A id \in 1 .. Len(nodes) :
                      (id # nextNode /\ \A i \in 1 .. depth : scopeStack[i] # id) =>
                          nodes'[id] = nodes[id]]_vars

\* C6 witness: a '}' was accepted; the closed scope holds an entry and is the
\* last child, after an earlier one, of the scope it was opened in.
C6_Witness ==
    LET top == nodes[scopeStack[Len(scopeStack)]]
    IN  /\ op = "parse"
        /\ thrown = NoError
        /\ fed.kind = "RIGHT_BRACE"
        /\ state = "KEY"
        /\ Len(top.children) >= 2
        /\ nodes[top.children[Len(top.children)]].children # <<>>

\* C7: a RIGHT_BRACE fed in state KEY with only the root on the stack is
\* rejected with an error and changes nothing; the root is always the bottom
\* of the stack.
C7_RootScopeNeverClosed ==
    /\ [](Len(scopeStack) >= 1 /\ scopeStack[1] = documentRoot)
    /\ [][(ParseCalled /\ state = "KEY" /\ Len(scopeStack) = 1
             /\ fed'.kind = "RIGHT_BRACE") =>
            /\ thrown' = UnexpectedToken(fed', "KEY")
            /\ accepted' = accepted
            /\ scopeStack' = scopeStack
            /\ nodes' = nodes
            /\ state' = "KEY"]_vars

\* C7 witness: a stray '}' was rejected at depth 1 after an entry was accepted.
C7_Witness ==
    /\ op = "parse"
    /\ fed.kind = "RIGHT_BRACE"
    /\ thrown = UnexpectedToken(fed, "KEY")
    /\ Len(scopeStack) = 1
    /\ nodes[documentRoot].children # <<>>

\* C8: in state EOF every token is rejected with an error, the state stays
\* EOF and the tree below the root stays as it is.
C8_EofIsTerminal ==
    [][(ParseCalled /\ state = "EOF") =>
          /\ thrown' = UnexpectedToken(fed', "EOF")
          /\ accepted' = accepted
          /\ state' = "EOF"
          /\ documentRoot' = documentRoot
          /\ Tree(nodes', documentRoot') = Tree(nodes, documentRoot)]_vars

\* C8 witness: after an accepted EOF an identifier was fed and rejected.
C8_Witness ==
    /\ op = "parse"
    /\ state = "EOF"
    /\ fed.kind = "IDENTIFIER"
    /\ thrown = UnexpectedToken(fed, "EOF")
    /\ nodes[documentRoot].children # <<>>

\* The number of EOF tokens in a token sequence.
EofCount(toks) == Cardinality({i \in 1 .. Len(toks) : toks[i].kind = "EOF"})

\* A scan call has ended, by returning or by raising.
ScanEnded == op = "scan" /\ pc \in {"returned", "threw"}

\* C9, as claimed: every scan call, whatever the input, emits EOF exactly once,
\* as its last token.
C9_EveryScanEmitsEof ==
    ScanEnded => EofCount(emitted) = 1 /\ emitted[Len(emitted)].kind = "EOF"

\* C9, amended: a scan call that returns has emitted EOF exactly once, as its
\* last token; no EOF is emitted while the loop runs, and none when the call
\* ends on a lexical error.
C9_ReturnedScanEndsWithEof ==
    op = "scan" =>
        /\ pc = "returned" =>
              /\ thrown = NoError
              /\ EofCount(emitted) = 1
              /\ emitted[Len(emitted)].kind = "EOF"
        /\ pc = "scan" => EofCount(emitted) = 0
        /\ pc = "threw" => thrown.type = "MemoSyntaxError" /\ EofCount(emitted) = 0

\* C9 witness: a scan over several lines returned after emitting tokens.
C9_Witness ==
    /\ ScanEnded
    /\ pc = "returned"
    /\ line > 1
    /\ Len(emitted) >= 3

\* The text is blanks and comments only: every character is a blank or has a
\* '#' before it on its line.
BlankChars == {" ", "\t", "\r", "\n"}

OnlyBlank(text) ==
    \A i \in 1 .. Len(text) :
        \/ text[i] \in BlankChars
        \/ \E j \in 1 .. i : text[j] = "#" /\ \A k \in j .. i - 1 : text[k] # "\n"

\* The text without its comments: each '#' and what follows it up to, not
\* including, the next newline is left out.  (For texts without '"'.)
RECURSIVE StripComments(_, _, _)
StripComments(text, i, inComment) ==
    IF i > Len(text) THEN <<>>
    ELSE IF text[i] = "\n" THEN <<"\n">> \o StripComments(text, i + 1, FALSE)
    ELSE IF inComment \/ text[i] = "#" THEN StripComments(text, i + 1, TRUE)
    ELSE <<text[i]>> \o StripComments(text, i + 1, FALSE)

IsPrefix(p, q) == Len(p) <= Len(q) /\ SubSeq(q, 1, Len(p)) = p

\* C10: a text of blanks and comments only gives the listener EOF alone and
\* parses to a root without children; and the tokens of any text are those of
\* the text with its comments left out (all of them when parse returns or ends
\* on a lexical error, which is then the same error; those up to the rejected
\* token otherwise).
C10_BlanksAndCommentsIgnored ==
    ParseEnded =>
        /\ OnlyBlank(source) =>
              /\ pc = "returned"
              /\ emitted = <<Token("EOF", Undefined, Undefined)>>
              /\ ~nodes[result].hasChildren
              /\ nodes[result].children = <<>>
        /\ LET plain == scanTokens(StripComments(source, 1, FALSE))
           IN  /\ IsPrefix(emitted, plain.tokens)
               /\ pc = "returned" => emitted = plain.tokens
               /\ thrown.type = "MemoSyntaxError" =>
                     emitted = plain.tokens /\ plain.thrown = thrown

\* C10 witness: a text that opens with a comment hiding an identifier, with
\* an entry on the next line, was parsed to that one entry.
C10_Witness ==
    /\ ParseEnded
    /\ pc = "returned"
    /\ Len(source) > 2
    /\ source[1] = "#"
    /\ source[2] = "a"
    /\ Len(emitted) = 3
    /\ Len(nodes[result].children) = 1

\* A step that is one scanToken call: the cursor moves on.
ScanStep == pc = "scan" /\ current' > current

\* The character the next scanToken call dispatches on, "" at the end.
Dispatched == IF current < Len(source) THEN source[current + 1] ELSE ""

\* The characters of [A-Za-z_] and of [A-Za-z0-9_].
WordStart == LowerCase \cup UpperCase \cup {"_"}
WordChars == WordStart \cup Digits

\* The 1-based position of the last character of the longest run of
\* characters of `chars` that starts at 1-based position from.
RunEnd(text, from, chars) ==
    CHOOSE e \in from - 1 .. Len(text) :
        /\ \A k \in from .. e : text[k] \in chars
        /\ e < Len(text) => text[e + 1] \notin chars

\* The token of a word: a reserved word, or an identifier.
WordToken(text) ==
    CASE text = <<"t", "r", "u", "e">> -> Token("TRUE", Str(text), True)
      [] text = <<"f", "a", "l", "s", "e">> -> Token("FALSE", Str(text), False)
      [] text = <<"n", "u", "l", "l">> -> Token("NULL", Str(text), Null)
      [] OTHER -> Token("IDENTIFIER", Str(text), Str(text))

\* C11: a scanToken call that dispatches on a character of [A-Za-z_] consumes
\* the longest run of [A-Za-z0-9_] from there and emits one token for it:
\* TRUE(true), FALSE(false) or NULL(null) when the whole run is that reserved
\* word, IDENTIFIER with the run as its value otherwise.
C11_IdentifierIsMaximalRun ==
    [][(ScanStep /\ Dispatched \in WordStart) =>
          LET end == RunEnd(source, current + 1, WordChars)
          IN  /\ current' = end
              /\ thrown' = NoError
              /\ emitted' = Append(emitted, WordToken(SubSeq(source, current + 1, end)))]_vars

\* C11 witness: 'truex' was scanned to one IDENTIFIER.
C11_Witness ==
    /\ ScanEnded
    /\ source = <<"t", "r", "u", "e", "x">>
    /\ Len(emitted) = 2
    /\ emitted[1].kind = "IDENTIFIER"
    /\ emitted[1].value = Str(source)

\* The 1-based position of the first '"' of text at or after from, 0 when none.
NextQuote(text, from) ==
    IF \E q \in from .. Len(text) : text[q] = "\""
    THEN CHOOSE q \in from .. Len(text) :
             text[q] = "\"" /\ \A k \in from .. q - 1 : text[k] # "\""
    ELSE 0

\* C12: a scanToken call that dispatches on a '"' with a later '"' in the source
\* emits one STRING token whose value is the text strictly between the two (no
\* escapes; newlines, '#', braces and semicolons are kept) and whose lexeme is
\* the empty string, and leaves the cursor right after the closing quote.
C12_StringIsTextBetweenQuotes ==
    [][(ScanStep /\ Dispatched = "\"" /\ NextQuote(source, current + 2) # 0) =>
          LET close == NextQuote(source, current + 2)
          IN  /\ current' = close
              /\ thrown' = NoError
              /\ emitted' = Append(emitted,
                      Token("STRING", Str(<<>>),
                            Str(SubSeq(source, current + 2, close - 1))))]_vars

\* C12 witness: '"#";' was scanned to STRING('#'), SEMICOLON, EOF.
C12_Witness ==
    /\ ScanEnded
    /\ source = <<"\"", "#", "\"", ";">>
    /\ Len(emitted) = 3
    /\ emitted[1] = Token("STRING", Str(<<>>), Str(<<"#">>))
    /\ emitted[2].kind = "SEMICOLON"

\* The number of newlines in text.
Newlines(text) == Cardinality({k \in 1 .. Len(text) : text[k] = "\n"})

\* C13: a scan that fails on an unterminated string raises an error that
\* carries the line it stopped on, 1 plus the newlines consumed (the whole
\* source is consumed by then), and has emitted no token for the string and
\* no EOF.
C13_UnterminatedStringCarriesLine ==
    (pc = "threw" /\ thrown.msg = "Unterminated string.") =>
        /\ thrown.location = 1 + Newlines(source)
        /\ EofCount(emitted) = 0
        /\ Append(emitted, Token("EOF", Undefined, Undefined))
               = scanTokens(SubSeq(source, 1, start)).tokens

\* The number of '.' in text.
Dots(text) == Cardinality({k \in 1 .. Len(text) : text[k] = "."})

\* C14: a scanToken call that emits a NUMBER token gives it the exact text it
\* consumed as lexeme, and that text is digits with at most one '.', where a
\* '.' after a digit is in the lexeme only when a digit follows it.
C14_NumberLexemeHasOneDot ==
    [][(ScanStep /\ emitted' # emitted /\ emitted'[Len(emitted')].kind = "NUMBER") =>
          LET text == SubSeq(source, current + 1, current')
          IN  /\ emitted'[Len(emitted')].lexeme = Str(text)
              /\ \A k \in 1 .. Len(text) : text[k] \in Digits \cup {"."}
              /\ \A k \in 2 .. Len(text) :
                    text[k] = "." => k < Len(text) /\ text[k + 1] \in Digits
              /\ Dots(text) <= 1]_vars

\* The entry 'a -1;': a key, a negative number literal and a semicolon.
NegativeEntry == <<"a", " ", "-", "1", ";">>

\* C15: parse accepts the entry 'a -1;' and returns a root whose only child
\* has key 'a' and the negative number -1 as value.
C15_NegativeNumberEntryAccepted ==
    (ParseEnded /\ source = NegativeEntry) =>
        /\ pc = "returned"
        /\ thrown = NoError
        /\ Tree(nodes, result).children
               = <<GrammarNode(Str(<<"a">>), Num(-1, 0), <<>>)>>

\* C16: the root parse(text) returns has key 'MemoML' and value '0.2.0', for
\* every text, the empty one included.
C16_RootIsMemoML020 ==
    (ParseEnded /\ pc = "returned") =>
        /\ result = documentRoot
        /\ nodes[result].key = Str(<<"M", "e", "m", "o", "M", "L">>)
        /\ nodes[result].value = Str(<<"0", ".", "2", ".", "0">>)

\* The structural characters and their token kinds.
StructuralKind ==
    [c \in {"{", "}", ";"} |->
        IF c = "{" THEN "LEFT_BRACE" ELSE IF c = "}" THEN "RIGHT_BRACE" ELSE "SEMICOLON"]

\* The structural characters of text from 1-based position i on, in order,
\* those inside strings ("...") and comments (# to the end of the line) left
\* out; mode is "code", "string" or "comment".
RECURSIVE Structurals(_, _, _)
Structurals(text, i, mode) ==
    IF i > Len(text) THEN <<>>
    ELSE LET c == text[i]
         IN  CASE mode = "string" ->
                    Structurals(text, i + 1, IF c = "\"" THEN "code" ELSE "string")
               [] mode = "comment" ->
                    Structurals(text, i + 1, IF c = "\n" THEN "code" ELSE "comment")
               [] OTHER ->
                    IF c \in DOMAIN StructuralKind
                    THEN <<c>> \o Structurals(text, i + 1, "code")
                    ELSE Structurals(text, i + 1,
                                     IF c = "\"" THEN "string"
                                     ELSE IF c = "#" THEN "comment"
                                     ELSE "code")

\* The structural tokens among tokens, in order.
RECURSIVE StructuralTokens(_)
StructuralTokens(tokens) ==
    IF tokens = <<>> THEN <<>>
    ELSE LET rest == StructuralTokens(Tail(tokens))
         IN  IF Head(tokens).kind \in {"LEFT_BRACE", "RIGHT_BRACE", "SEMICOLON"}
             THEN <<Head(tokens)>> \o rest
             ELSE rest

\* C17: each scanToken call emits at most one token, after the ones emitted
\* before it, and takes up the source where the call before it stopped; a
\* call that dispatches on '{', '}' or ';' emits exactly the matching token
\* with that character as lexeme and value; and at every moment of a scan the
\* structural tokens emitted are, one for one and in order, the structural
\* characters outside strings and comments of the source consumed so far.
C17_OneTokenPerUnitInOrder ==
    /\ [][ScanStep =>
            /\ start' = current
            /\ \/ emitted' = emitted
               \/ /\ Len(emitted') = Len(emitted) + 1
                  /\ SubSeq(emitted', 1, Len(emitted)) = emitted
            /\ Dispatched \in DOMAIN StructuralKind =>
                  /\ current' = current + 1
                  /\ emitted' = Append(emitted,
                         Token(StructuralKind[Dispatched], Str(<<Dispatched>>),
                               Str(<<Dispatched>>)))]_vars
    /\ [](pc \in {"scan", "returned"} =>
            LET chars == Structurals(SubSeq(source, 1, current), 1, "code")
                tokens == StructuralTokens(emitted)
            IN  /\ Len(tokens) = Len(chars)
                /\ \A i \in 1 .. Len(chars) :
                      tokens[i] = Token(StructuralKind[chars[i]], Str(<<chars[i]>>),
                                        Str(<<chars[i]>>)))

\* C17 witness: '{";"' was scanned to LEFT_BRACE, STRING(';'), EOF.
C17_Witness ==
    /\ ScanEnded
    /\ source = <<"{", "\"", ";", "\"">>
    /\ Len(emitted) = 3
    /\ emitted[1] = Token("LEFT_BRACE", Str(<<"{">>), Str(<<"{">>))
    /\ emitted[2].kind = "STRING"
    /\ emitted[3].kind = "EOF"

\* C18: in parse(text) every token emitted is fed to the parser at once, and
\* the first error ends the parse.  At most one token is ever rejected and
\* nothing is scanned after it; a parse that fails returns no node and has
\* fed exactly the tokens a scan of the text yields up to the failure: when
\* the parser rejected a token, that token is the last one emitted and the
\* error is the parser's, whatever lexical error lies further on; otherwise
\* the error is the scanner's and every token before it, and no EOF, was fed
\* and accepted.  A parse that returns has raised nothing.
C18_FirstErrorAborts ==
    (op = "parse" /\ parseArgumentError(args) = NoError) =>
        LET scan == scanTokens(source)
            rejected == Len(accepted) < Len(emitted)
        IN  /\ calls = Len(emitted)
            /\ Len(emitted) <= Len(scan.tokens)
            /\ emitted = SubSeq(scan.tokens, 1, Len(emitted))
            /\ accepted = SubSeq(emitted, 1, Len(accepted))
            /\ Len(emitted) - Len(accepted) \in {0, 1}
            /\ rejected => pc = "threw"
            /\ pc = "threw" =>
                  /\ result = 0
                  /\ thrown # NoError
                  /\ IF rejected
                     THEN /\ thrown.type = "Error"
                          /\ fed = emitted[Len(emitted)]
                          /\ thrown = UnexpectedToken(fed, state)
                     ELSE /\ thrown.type = "MemoSyntaxError"
                          /\ thrown = scan.thrown
                          /\ emitted = scan.tokens
                          /\ EofCount(emitted) = 0
            /\ pc = "returned" =>
                  /\ thrown = NoError
                  /\ scan.thrown = NoError
                  /\ accepted = scan.tokens

\* C18 witness: parse of a text with a lexical error further on failed on a
\* token the parser rejected before the scanner got there.
C18_Witness ==
    /\ ParseEnded
    /\ pc = "threw"
    /\ thrown.type = "Error"
    /\ Len(accepted) < Len(emitted)
    /\ scanTokens(source).thrown.type = "MemoSyntaxError"
    /\ current < Len(source)

\* C19: the second of two scan calls on one Scanner emits the tokens, and
\* raises the error, that a new Scanner would for the same source, whatever
\* the first call was given.
C19_SecondScanIsFresh ==
    (op = "rescan" /\ pc \in {"returned", "threw"}) =>
        /\ emitted = scanTokens(source).tokens
        /\ thrown = scanTokens(source).thrown

\* The children of node id that have the key `key`, as places in its list.
WithKey(ns, id, key) ==
    {i \in 1 .. Len(ns[id].children) : ns[ns[id].children[i]].key = key}

\* C20: no Parser.parse call takes away, changes or moves an entry that is
\* already a child: the entries below every node stay, as they are and in
\* their places, at the head of its list.  An entry completed by ';', or a
\* scope entry completed by '}', becomes the last child of its scope also when
\* the scope has children with the same key, which all stay: the scope then
\* has one more child with that key.
C20_RepeatedKeysKeptInOrder ==
    [][ParseCalled =>
          /\ \A id \in 1 .. Len(nodes) :
                IsPrefix(Tree(nodes, id).children, Tree(nodes', id).children)
          /\ \A tokenKind \in {"SEMICOLON", "RIGHT_BRACE"} :
                Accepted({tokenKind}) =>
                    LET depth == Len(scopeStack)
                        entry == IF tokenKind = "SEMICOLON" THEN nextNode
                                 ELSE scopeStack[depth]
                        scope == IF tokenKind = "SEMICOLON" THEN scopeStack[depth]
                                 ELSE scopeStack[depth - 1]
                        key == nodes'[entry].key
                        last == Len(nodes'[scope].children)
                    IN  /\ last = Len(nodes[scope].children) + 1
                        /\ nodes'[scope].children[last] = entry
                        /\ WithKey(nodes', scope, key)
                               = WithKey(nodes, scope, key) \cup {last}]_vars

\* C20 witness: after 'a { } a "s" ;' the root has two children with key 'a',
\* the scope entry first and the key-value entry second.
C20_Witness ==
    /\ op = "parse"
    /\ thrown = NoError
    /\ Len(accepted) = 6
    /\ accepted[2].kind = "LEFT_BRACE"
    /\ accepted[3].kind = "RIGHT_BRACE"
    /\ accepted[5].kind = "STRING"
    /\ accepted[6].kind = "SEMICOLON"
    /\ LET root == Tree(nodes, documentRoot)
       IN  /\ Len(root.children) = 2
           /\ root.children[1].key = root.children[2].key
           /\ root.children[1].value = True
           /\ root.children[2].value = Str(<<"s">>)

\* C21: parse called with anything but exactly one string raises a TypeError,
\* 'Invalid number of arguments.' or 'Invalid argument type.', with no Parser
\* and no Scanner constructed, nothing scanned and nothing fed; called with
\* one string it constructs both and raises no TypeError.
C21_BadArgumentsRejectedFirst ==
    op = "parse" =>
        IF Len(args) = 1 /\ args[1].type = "string"
        THEN /\ listener = "parser"
             /\ source = args[1].str
             /\ thrown.type # "TypeError"
        ELSE /\ pc = "threw"
             /\ thrown.type = "TypeError"
             /\ thrown.msg = IF Len(args) # 1 THEN "Invalid number of arguments."
                             ELSE "Invalid argument type."
             /\ result = 0
             /\ ScannerNone
             /\ ParserNone
             /\ emitted = <<>>
             /\ calls = 0

\* C21 witness: parse(null) has raised.
C21_Witness ==
    /\ op = "parse"
    /\ pc = "threw"
    /\ args = <<Null>>
    /\ thrown.msg = "Invalid argument type."

\* The (state, kind) pairs the parser accepts, at scope stack depth `depth`.
Accepts(st, kind, depth) ==
    \/ st = "KEY" /\ kind \in {"IDENTIFIER", "EOF"}
    \/ st = "KEY" /\ kind = "RIGHT_BRACE" /\ depth > 1
    \/ st = "VALUE" /\ kind \in GrammarValueKinds \cup {"SEMICOLON", "LEFT_BRACE"}
    \/ st = "SCOPE" /\ kind \in {"SEMICOLON", "LEFT_BRACE"}

\* The state an accepted pair leads to.
StateAfter(st, kind) ==
    CASE st = "KEY" /\ kind = "IDENTIFIER" -> "VALUE"
      [] st = "KEY" /\ kind = "EOF" -> "EOF"
      [] st = "VALUE" /\ kind \in GrammarValueKinds -> "SCOPE"
      [] OTHER -> "KEY"

\* C22: a Parser.parse call returns normally exactly when its (state, kind)
\* pair is one of: KEY with IDENTIFIER, with RIGHT_BRACE at depth > 1, with
\* EOF; VALUE with a literal, SEMICOLON, LEFT_BRACE; SCOPE with SEMICOLON,
\* LEFT_BRACE; the parser is then in the state the pair leads to.  Every
\* other pair, every pair of state EOF included, raises the parser's error.
C22_TransitionTable ==
    [][ParseCalled =>
          IF Accepts(state, fed'.kind, Len(scopeStack))
          THEN /\ thrown' = NoError
               /\ state' = StateAfter(state, fed'.kind)
          ELSE /\ thrown'.type = "Error"
               /\ thrown'.msg = "Unexpected token"
               /\ thrown'.kind = fed'.kind]_vars

\* C22 witness: a literal was rejected in state SCOPE, after a literal.
C22_Witness ==
    /\ op = "parse"
    /\ state = "SCOPE"
    /\ fed.kind = "TRUE"
    /\ thrown = UnexpectedToken(fed, "SCOPE")
    /\ Len(accepted) = 2
    /\ accepted[2].kind = "NUMBER"

\* C23: a Parser.parse call that raises leaves the state, the scope stack,
\* the staged node and every node as they were, and its error names the
\* token's kind and lexeme and the state the token was fed in; so the tokens
\* fed after it are handled as if it had not been fed: a parser that reaches
\* state EOF on accepted tokens that form a document holds that document's
\* tree, whatever tokens were rejected in between.
C23_RejectedTokenChangesNothing ==
    /\ [][(ParseCalled /\ thrown' # NoError) =>
            /\ state' = state
            /\ scopeStack' = scopeStack
            /\ nextNode' = nextNode
            /\ nodes' = nodes
            /\ documentRoot' = documentRoot
            /\ accepted' = accepted
            /\ thrown'.state = state
            /\ thrown'.kind = fed'.kind
            /\ thrown'.lexeme = fed'.lexeme]_vars
    /\ []((op # "new" /\ state = "EOF" /\ GrammarMatches(accepted)) =>
            Tree(nodes, documentRoot).children = GrammarEntries(accepted, 1).entries)

\* C23 witness: a parser that rejected two tokens on the way has completed a
\* document with an entry.
C23_Witness ==
    /\ op = "parse"
    /\ state = "EOF"
    /\ thrown = NoError
    /\ calls = Len(accepted) + 2
    /\ GrammarMatches(accepted)
    /\ Len(nodes[documentRoot].children) >= 1

\* A parser told by value: its state, the open scopes as trees (the root
\* lowest) and the key and value of the staged node.
TreeParser(st, stack, key, value) ==
    [state |-> st, stack |-> stack, key |-> key, value |-> value]

TreeParserNew ==
    TreeParser("KEY", <<GrammarNode(kSchemaName, kSchemaVersion, <<>>)>>, Str(<<>>),
               Undefined)

\* The tree parser with `child` made the last child of its top scope.
WithChild(stack, child) ==
    LET top == stack[Len(stack)]
    IN  [stack EXCEPT ![Len(stack)] =
            GrammarNode(top.key, top.value, Append(top.children, child))]

\* The tree parser after an accepted token.
TreeParserAfter(p, token) ==
    LET value == IF p.state = "VALUE" THEN True ELSE p.value
        entry == GrammarNode(p.key, value, <<>>)
    IN  CASE token.kind = "IDENTIFIER" ->
                TreeParser("VALUE", p.stack, token.value, p.value)
          [] token.kind \in GrammarValueKinds ->
                TreeParser("SCOPE", p.stack, p.key, token.value)
          [] token.kind = "SEMICOLON" ->
                TreeParser("KEY", WithChild(p.stack, entry), Str(<<>>), Undefined)
          [] token.kind = "LEFT_BRACE" ->
                TreeParser("KEY", Append(p.stack, entry), Str(<<>>), Undefined)
          [] token.kind = "RIGHT_BRACE" ->
                TreeParser("KEY",
                           WithChild(SubSeq(p.stack, 1, Len(p.stack) - 1),
                                     p.stack[Len(p.stack)]),
                           Str(<<>>), Undefined)
          [] OTHER -> TreeParser("EOF", p.stack, p.key, p.value)

\* The tree parser after the accepted tokens toks[1 .. n].
RECURSIVE TreeParserOf(_, _)
TreeParserOf(toks, n) ==
    IF n = 0 THEN TreeParserNew ELSE TreeParserAfter(TreeParserOf(toks, n - 1), toks[n])

\* The parser, tracing or not, told by value.
ParserAsTrees ==
    TreeParser(state, [i \in 1 .. Len(scopeStack) |-> Tree(nodes, scopeStack[i])],
               nodes[nextNode].key, nodes[nextNode].value)

\* C24: a tracing parser appends to its trace, at every Parser.parse call,
\* rejected or not, the token of the call paired with the state before the
\* call, so after n calls the trace has n entries; a parser that does not
\* trace keeps no trace and its trace reads undefined.  Tracing changes
\* nothing else: either parser accepts a token exactly on the accepted
\* (state, kind) pairs, and its state, open scopes and staged node are at
\* every moment those that the tokens it accepted so far determine.
C24_TraceRecordsAndChangesNothing ==
    /\ [][ParseCalled =>
            /\ enableTrace' = enableTrace
            /\ trace' = IF enableTrace
                        THEN Append(trace, [state |-> state, token |-> fed'])
                        ELSE <<>>
            /\ (thrown' = NoError) = Accepts(state, fed'.kind, Len(scopeStack))]_vars
    /\ [](IF enableTrace THEN Len(traceGetter) = calls
          ELSE trace = <<>> /\ traceGetter = Undefined)
    /\ [](ParserAsTrees = TreeParserOf(accepted, Len(accepted)))

\* C24 witness: a tracing parser has traced three calls, the second of them
\* rejected.
C24_Witness ==
    /\ enableTrace
    /\ Len(trace) = 3
    /\ Len(accepted) = 2
    /\ trace[2].state = "VALUE"
    /\ trace[2].token.kind = "RIGHT_BRACE"
    /\ trace[3] = [state |-> "VALUE", token |-> accepted[2]]
    /\ state = "KEY"

\* C25: whatever tokens a Parser has been fed, its scope stack is not empty
\* and its lowest element is the document root, a node with key 'MemoML' and
\* the schema version as value; no Parser.parse call changes which node the
\* root is, its key or its value.
C25_RootStaysAtBottom ==
    /\ [](/\ Len(scopeStack) >= 1
          /\ scopeStack[1] = documentRoot
          /\ \A i \in 2 .. Len(scopeStack) : scopeStack[i] # documentRoot
          /\ nextNode # documentRoot
          /\ nodes[documentRoot].key = Str(<<"M", "e", "m", "o", "M", "L">>)
          /\ nodes[documentRoot].value = Str(<<"0", ".", "1", ".", "0">>))
    /\ [][ParseCalled =>
            /\ documentRoot' = documentRoot
            /\ nodes'[documentRoot].key = nodes[documentRoot].key
            /\ nodes'[documentRoot].value = nodes[documentRoot].value]_vars

\* C25 witness: after a scope was closed and another opened, with rejected
\* tokens among those fed, the root is below one open scope.
C25_Witness ==
    /\ op = "parse"
    /\ Len(scopeStack) = 2
    /\ scopeStack[1] = documentRoot
    /\ Len(nodes[documentRoot].children) = 1
    /\ nodes[nodes[documentRoot].children[1]].key = Str(<<"a">>)
    /\ calls > Len(accepted)

\* C26: in every parser state every node, the root and the staged node
\* included, has the children attribute exactly when its children sequence is
\* not empty; a Parser.parse call gives a node the attribute exactly when it
\* appends the node's first child, and never takes it away.
C26_ChildrenOnlyWhenAppended ==
    /\ [](\A id \in 1 .. Len(nodes) :
            nodes[id].hasChildren = (nodes[id].children # <<>>))
    /\ [][ParseCalled =>
            \A id \in 1 .. Len(nodes) :
                /\ nodes[id].hasChildren => nodes'[id].hasChildren
                /\ (~nodes[id].hasChildren /\ nodes'[id].hasChildren) =>
                       Len(nodes'[id].children) = 1]_vars

\* C26 witness: after 'a { }' and EOF the root has its one child, the scope
\* closed with no entries, which has no children attribute.
C26_Witness ==
    /\ op = "parse"
    /\ state = "EOF"
    /\ Len(accepted) = 4
    /\ accepted[2].kind = "LEFT_BRACE"
    /\ accepted[3].kind = "RIGHT_BRACE"
    /\ nodes[documentRoot].hasChildren
    /\ Len(nodes[documentRoot].children) = 1
    /\ ~nodes[nodes[documentRoot].children[1]].hasChildren

\* The characters scanToken has a case for.
KnownChars ==
    {"{", "}", ";", "#", " ", "\r", "\t", "\n", "\"", "."} \cup Digits \cup WordStart

C28_LineCountsNewlinesPassed ==
    /\ [](line = 1 + Newlines(SubSeq(source, 1, current)))
    /\ [][ScanStep =>
            /\ line' = line + Newlines(SubSeq(source, current + 1, current'))
            /\ Dispatched = "#" =>
                  /\ line' = line
                  /\ current' < Len(source) => source[current' + 1] = "\n"]_vars

\* C28 witness: a newline inside a string and one after it were counted.
C28_Witness ==
    /\ ScanEnded
    /\ pc = "returned"
    /\ source = <<"\"", "\n", "\"", "\n">>
    /\ line = 3
    /\ Len(emitted) = 2
    /\ emitted[1] = Token("STRING", Str(<<>>), Str(<<"\n">>))

\* The number of tokens of kind `kind` among tokens.
KindCount(tokens, kind) ==
    Cardinality({i \in 1 .. Len(tokens) : tokens[i].kind = kind})

\* C29: the scope stack depth is 1 plus the accepted LEFT_BRACE tokens minus
\* the accepted RIGHT_BRACE tokens, and it is 1 once an EOF token has been
\* accepted.
C29_DepthBalancedAtEof ==
    /\ Len(scopeStack) = 1 + KindCount(accepted, "LEFT_BRACE")
                           - KindCount(accepted, "RIGHT_BRACE")
    /\ KindCount(accepted, "EOF") > 0 => Len(scopeStack) = 1

\* C30: a scan that has started ends, returning after EOF or raising; each
\* turn of its loop moves the cursor on by at least one character from where
\* the turn started, and 0 <= start <= current <= length of the source at
\* every step.
C30_ScanTerminates ==
    /\ [](0 <= start /\ start <= current /\ current <= Len(source))
    /\ [][(pc = "scan" /\ current < Len(source)) =>
            /\ start' = current
            /\ current' >= current + 1
            /\ pc' \in {"scan", "threw"}]_vars
    /\ [][(pc = "scan" /\ current = Len(source)) =>
            /\ pc' = "returned"
            /\ emitted' = Append(emitted, Token("EOF", Undefined, Undefined))]_vars
    /\ (pc = "scan" ~> pc \in {"returned", "threw"})

\* C30 witness: a scan of three characters has returned after three turns
\* that emitted nothing.
C30_Witness ==
    /\ ScanEnded
    /\ pc = "returned"
    /\ source = <<" ", "\n", " ">>
    /\ current = 3
    /\ start = 2
    /\ emitted = <<Token("EOF", Undefined, Undefined)>>

\* C31: parse(text) with a string argument never raises 'Incomplete
\* document.': either the scan ends on an error, the scanner's syntax error or
\* the parser's rejection of the token it was handed, and documentRoot is not
\* read; or the scan returns, and then the last token the parser accepted is
\* EOF, the parser is in state EOF, and reading documentRoot returns the root.
C31_ParseNeverIncomplete ==
    (op = "parse" /\ parseArgumentError(args) = NoError) =>
        /\ thrown # IncompleteDocument
        /\ pc = "scan" => state # "EOF" /\ thrown = NoError
        /\ pc \in {"scanned", "returned"} =>
              /\ state = "EOF"
              /\ thrown = NoError
              /\ accepted # <<>>
              /\ accepted[Len(accepted)].kind = "EOF"
              /\ EofCount(accepted) = 1
        /\ pc = "scanned" => result = 0
        /\ pc = "returned" => result = documentRoot
        /\ pc = "threw" =>
              /\ state # "EOF"
              /\ result = 0
              /\ \/ thrown.type = "MemoSyntaxError"
                 \/ thrown = UnexpectedToken(fed, state)

\* C31 witness: parse of a text with a nested entry has read documentRoot in
\* state EOF and returned the root.
C31_Witness ==
    /\ ParseEnded
    /\ pc = "returned"
    /\ source = <<"a", "{", "a", ";", "}">>
    /\ state = "EOF"
    /\ accepted[Len(accepted)].kind = "EOF"
    /\ result = documentRoot

\* The nodes reached from the nodes `ids` in at most n steps along children.
RECURSIVE Under(_, _, _)
Under(ns, ids, n) ==
    IF n = 0 THEN ids
    ELSE Under(ns,
               ids \cup {c \in 1 .. Len(ns) :
                            \E p \in ids : \E i \in 1 .. Len(ns[p].children) :
                                ns[p].children[i] = c},
               n - 1)

\* The nodes reachable from node id, id included.
Reachable(ns, id) == Under(ns, {id}, Len(ns))

\* The children of node id, as a set.
ChildrenOf(ns, id) == {ns[id].children[i] : i \in 1 .. Len(ns[id].children)}

\* Node id is on the scope stack.
OnStack(id) == \E i \in 1 .. Len(scopeStack) : scopeStack[i] = id

\* C32: what is reachable from the root is a tree: no node is a child at two
\* places, the root is nobody's child and no node is below itself; an open
\* scope above the root is on the stack once, is a child nowhere and is not
\* reachable from the root; the staged node is a child nowhere, is not on the
\* stack and has no children; every other node but the root is an open scope
\* or a child at exactly one place, and carries the key of an accepted
\* IDENTIFIER, or is the untouched object that was staged when a '}' was
\* accepted, which nothing refers to any more. An accepted
\* ';', '{' or '}' stages a new object, and the node staged before is then
\* attached (';') or pushed ('{'); any other call keeps the staged object; an
\* accepted '}' attaches the closed scope, and it is reachable from the root
\* only then, and only when the scope below it is.
C32_RootStructureIsTree ==
    /\ [](nodes # <<>> =>
            /\ nextNode \in 2 .. Len(nodes)
            /\ \A id \in 1 .. Len(nodes) :
                  /\ ChildPlaces(nodes, id) <= 1
                  /\ \A c \in ChildrenOf(nodes, id) : id \notin Reachable(nodes, c)
            /\ ChildPlaces(nodes, documentRoot) = 0
            /\ \A i, j \in 1 .. Len(scopeStack) :
                  scopeStack[i] = scopeStack[j] => i = j
            /\ \A i \in 2 .. Len(scopeStack) :
                  /\ ChildPlaces(nodes, scopeStack[i]) = 0
                  /\ scopeStack[i] \notin Reachable(nodes, documentRoot)
            /\ ChildPlaces(nodes, nextNode) = 0
            /\ ~OnStack(nextNode)
            /\ nextNode \notin Reachable(nodes, documentRoot)
            /\ nodes[nextNode].children = <<>>
            /\ \A id \in 2 .. Len(nodes) :
                  id # nextNode =>
                      IF OnStack(id) \/ ChildPlaces(nodes, id) = 1
                      THEN \E i \in 1 .. Len(accepted) :
                              /\ accepted[i].kind = "IDENTIFIER"
                              /\ accepted[i].value = nodes[id].key
                      ELSE nodes[id] = Node(Str(<<>>), Undefined))
    /\ [][ParseCalled =>
            LET depth == Len(scopeStack)
                top == scopeStack[depth]
            IN  IF Accepted({"SEMICOLON", "LEFT_BRACE", "RIGHT_BRACE"})
                THEN /\ Len(nodes') = Len(nodes) + 1
                     /\ nextNode' = Len(nodes')
                     /\ nodes'[nextNode'] = Node(Str(<<>>), Undefined)
                     /\ Accepted({"SEMICOLON"}) =>
                           /\ ChildPlaces(nodes', nextNode) = 1
                           /\ nextNode \in ChildrenOf(nodes', top)
                     /\ Accepted({"LEFT_BRACE"}) =>
                           /\ scopeStack'[depth + 1] = nextNode
                           /\ ChildPlaces(nodes', nextNode) = 0
                     /\ Accepted({"RIGHT_BRACE"}) =>
                           /\ top \notin Reachable(nodes, documentRoot)
                           /\ top \in ChildrenOf(nodes', scopeStack[depth - 1])
                           /\ (top \in Reachable(nodes', documentRoot)) = (depth = 2)
                ELSE /\ nextNode' = nextNode
                     /\ Len(nodes') = Len(nodes)
                     /\ \A id \in 1 .. Len(nodes) :
                           nodes'[id].children = nodes[id].children]_vars

\* C32 witness: 'a { a { a ; }' was accepted: the inner scope, holding an
\* entry, is closed and attached to the outer one, which is still open, so
\* nothing is reachable from the root yet, and a new node is staged.
C32_Witness ==
    /\ op = "parse"
    /\ thrown = NoError
    /\ fed.kind = "RIGHT_BRACE"
    /\ Len(scopeStack) = 2
    /\ Len(nodes) = 6
    /\ nextNode = 6
    /\ Reachable(nodes, documentRoot) = {documentRoot}
    /\ Reachable(nodes, scopeStack[2]) = {2, 3, 4}
    /\ ChildPlaces(nodes, 3) = 1 /\ ChildPlaces(nodes, 4) = 1

====
